---- MODULE Spec2Model ----
(***************************************************************************)
(* Model of the budgeting dashboard of src/App.tsx: the debt collection,   *)
(* the per-debt payment / withdrawal controls (DebtItem), the add / edit   *)
(* debt form with its three creation paths, the weekly budget, the         *)
(* overview's filter dialog, gas log and wallet link, and the calendar and *)
(* week arithmetic of the JavaScript Date objects those handlers use.      *)
(*                                                                         *)
(* Time is counted in hours since 1970-01-01T00:00Z (a Date's getTime()    *)
(* scaled from milliseconds to hours).  Two handler runs with no Tick in   *)
(* between read the same clock value, as two calls of Date.now() within    *)
(* one clock period do.  A date-only string "YYYY-MM-DD" is the one-       *)
(* element sequence holding its day number (days since 1970-01-01); the    *)
(* empty string is the empty sequence.                                     *)
(***************************************************************************)
EXTENDS Integers, Sequences, FiniteSets, TLC

VARIABLES
    now,                \* the wall clock: Date.now() / new Date()
    tz,                 \* offset of local time from UTC, in hours
    currentDate,        \* App: const [currentDate] = useState(new Date())
    debts,              \* App: the debt collection, in insertion order
    items,              \* DebtItem component state, keyed by React key (debt.id)
    debtFilterMonth,    \* App: month of the debt card filter (0..11)
    debtFilterYear,     \* App: year of the debt card filter
    isDebtModalOpen,    \* App: the add / edit form is shown
    editingDebtId,      \* App: id of the debt being edited, <<>> for null
    debtType,           \* App: "standard" | "shopee"
    newDebt,            \* App: the form's fields
    isRecurringDebt,    \* App: recurring checkbox
    recurringFrequency, \* App: "weekly" | "monthly"
    recurringEndDate,   \* App: date string, <<>> when empty
    shopeeBillMonth,    \* App: bill month of the templated form (0..11)
    shopeeBillYear,     \* App: bill year of the templated form
    weeklyIncome,       \* App: the income the budget is computed from
    incomeInput,        \* App: the income typed in, not yet submitted
    actualFoodSpending, \* App: actual spending on food this week
    actualMiscSpending, \* App: actual miscellaneous spending this week
    filter,             \* App: the overview filter (FilterState)
    isFilterModalOpen,  \* App: the filter dialog is shown
    modalYear,          \* FilterModal: const [year, setYear]
    modalView,          \* FilterModal: "main" | "week" | "month"
    gasHistory,         \* App: the gas logs, in insertion order
    isGasFilledToday,   \* App: the value memoised by useMemo(..., [lastGasFill])
    isMomoConnected,    \* App: the wallet is linked
    momoTimers,         \* connection timers set by setTimeout and not yet fired
    lastMomoClick       \* history: what the user's last click on the link button asked for

vars == <<now, tz, currentDate, debts, items, debtFilterMonth, debtFilterYear,
          isDebtModalOpen, editingDebtId, debtType, newDebt, isRecurringDebt,
          recurringFrequency, recurringEndDate, shopeeBillMonth, shopeeBillYear,
          weeklyIncome, incomeInput, actualFoodSpending, actualMiscSpending,
          filter, isFilterModalOpen, modalYear, modalView, gasHistory,
          isGasFilledToday, isMomoConnected, momoTimers, lastMomoClick>>

formVars == <<isDebtModalOpen, editingDebtId, debtType, newDebt, isRecurringDebt,
              recurringFrequency, recurringEndDate, shopeeBillMonth, shopeeBillYear>>

budgetVars == <<weeklyIncome, incomeInput, actualFoodSpending, actualMiscSpending>>

filterVars == <<filter, isFilterModalOpen, modalYear, modalView>>

gasVars == <<gasHistory, isGasFilledToday>>

momoVars == <<isMomoConnected, momoTimers, lastMomoClick>>

overviewVars == <<filterVars, gasVars, momoVars>>

----------------------------------------------------------------------------
(* Bounds of the model *)

MaxDebts == 2       \* debts in the collection
MaxTx == 2          \* transactions in all ledgers together
MaxInput == 2       \* largest value typed into a DebtItem amount input
MaxPaid == 3        \* largest amountPaid a payment may reach
MaxTicks == 1       \* clock periods elapsed since startup
MaxReasonLen == 1   \* characters typed into a withdrawal reason
MaxInstallments == 4 \* installments of one recurring save into an empty collection

----------------------------------------------------------------------------
(* JavaScript Date arithmetic (proleptic Gregorian calendar) *)

HoursPerDay == 24

Max2(a, b) == IF a >= b THEN a ELSE b

\* days since 1970-01-01 of the civil date y-m-d, m in 1..12
DaysFromCivil(y, m, d) ==
    LET yy  == IF m <= 2 THEN y - 1 ELSE y
        era == yy \div 400
        yoe == yy - era * 400
        mp  == IF m > 2 THEN m - 3 ELSE m + 9
        doy == (153 * mp + 2) \div 5 + d - 1
        doe == yoe * 365 + yoe \div 4 - yoe \div 100 + doy
    IN  era * 146097 + doe - 719468

\* the civil date [y, m (0..11), d] of a day number
CivilFromDays(z) ==
    LET zz  == z + 719468
        era == zz \div 146097
        doe == zz - era * 146097
        yoe == (doe - doe \div 1460 + doe \div 36524 - doe \div 146096) \div 365
        doy == doe - (365 * yoe + yoe \div 4 - yoe \div 100)
        mp  == (5 * doy + 2) \div 153
        d   == doy - (153 * mp + 2) \div 5 + 1
        m   == IF mp < 10 THEN mp + 3 ELSE mp - 9
        y   == yoe + era * 400 + (IF m <= 2 THEN 1 ELSE 0)
    IN  [y |-> y, m |-> m - 1, d |-> d]

\* new Date(y, m, d, h) in local time: month and day overflow are carried
MakeLocal(y, m, d, h, off) ==
    LET yy == y + m \div 12
        mm == m % 12
    IN  (DaysFromCivil(yy, mm + 1, 1) + d - 1) * HoursPerDay + h - off

LocalDay(t, off) == (t + off) \div HoursPerDay
LocalHour(t, off) == (t + off) % HoursPerDay

getFullYear(t, off) == CivilFromDays(LocalDay(t, off)).y
getMonth(t, off) == CivilFromDays(LocalDay(t, off)).m
getDate(t, off) == CivilFromDays(LocalDay(t, off)).d

\* date.setMonth(m): same local year, day of month and time of day
setMonth(t, m, off) ==
    MakeLocal(getFullYear(t, off), m, getDate(t, off), LocalHour(t, off), off)

\* date.setDate(d): same local year, month and time of day
setDate(t, d, off) ==
    MakeLocal(getFullYear(t, off), getMonth(t, off), d, LocalHour(t, off), off)

\* date.getDay(): 0 for Sunday .. 6 for Saturday (1970-01-01 was a Thursday)
getDay(t, off) == (LocalDay(t, off) + 4) % 7

\* date.setHours(23, 59, 59, 999): the last clock value of the local day
setHoursEndOfDay(t, off) ==
    MakeLocal(getFullYear(t, off), getMonth(t, off), getDate(t, off),
              HoursPerDay - 1, off)

\* date.toISOString().slice(0, 10): the UTC calendar day, as a date string
toISODateString(t) == << t \div HoursPerDay >>

\* new Date("YYYY-MM-DD"): midnight UTC of that day
parseDateString(s) == s[1] * HoursPerDay

----------------------------------------------------------------------------
(* Week arithmetic of the date utilities *)

\* Math.ceil(n / 7) for n >= 0
CeilDiv7(n) == (n + 6) \div 7

\* getUTCDay() used as it is, Sunday counted as day 0 of the week
getWeekNumber_sundayZero(t, off) ==
    LET u  == MakeLocal(getFullYear(t, off), getMonth(t, off), getDate(t, off), 0, 0)
        th == setDate(u, getDate(u, 0) + 4 - getDay(u, 0), 0)
        yearStart == MakeLocal(getFullYear(th, 0), 0, 1, 0, 0)
        weekNo == CeilDiv7((th - yearStart) \div HoursPerDay + 1)
    IN  <<getFullYear(th, 0), weekNo>>

\* getWeekNumber(d): [year, week] of the Thursday of d's week, computed on
\* the UTC date built from d's local calendar fields
getWeekNumber(t, off) ==
    LET u  == MakeLocal(getFullYear(t, off), getMonth(t, off), getDate(t, off), 0, 0)
        wd == IF getDay(u, 0) = 0 THEN 7 ELSE getDay(u, 0)
        th == setDate(u, getDate(u, 0) + 4 - wd, 0)
        yearStart == MakeLocal(getFullYear(th, 0), 0, 1, 0, 0)
        weekNo == CeilDiv7((th - yearStart) \div HoursPerDay + 1)
    IN  <<getFullYear(th, 0), weekNo>>

\* the start of the range taken as it is, not moved back to the Monday
getWeekRange_noRollBack(year, weekNumber, off) ==
    LET d == MakeLocal(year, 0, 1 + (weekNumber - 1) * 7, 0, off)
    IN  [start |-> d, end |-> setDate(d, getDate(d, off) + 6, off)]

\* getWeekRange(year, weekNumber): local midnight of the Monday of the week
\* holding January 1 + 7 * (weekNumber - 1), and of the Sunday after it
getWeekRange(year, weekNumber, off) ==
    LET d     == MakeLocal(year, 0, 1 + (weekNumber - 1) * 7, 0, off)
        day   == getDay(d, off)
        diff  == getDate(d, off) - day + (IF day = 0 THEN -6 ELSE 1)
        start == setDate(d, diff, off)
        end   == setDate(start, getDate(start, off) + 6, off)
    IN  [start |-> start, end |-> end]

\* if (week): the field is present and not 0
hasWeek(f) == "week" \in DOMAIN f /\ f.week # 0

\* the end of the range left at midnight
isDateInFilter_endAtMidnight(date, f, off) ==
    CASE f.type = "all"   -> TRUE
      [] f.type = "year"  -> getFullYear(date, off) = f.year
      [] f.type = "month" -> getFullYear(date, off) = f.year /\ getMonth(date, off) = f.month
      [] f.type = "week"  ->
            IF hasWeek(f)
            THEN LET r == getWeekRange(f.year, f.week, off)
                 IN  date >= r.start /\ date <= r.end
            ELSE FALSE
      [] OTHER -> FALSE

isDateInFilter(date, f, off) ==
    CASE f.type = "all"   -> TRUE
      [] f.type = "year"  -> getFullYear(date, off) = f.year
      [] f.type = "month" -> getFullYear(date, off) = f.year /\ getMonth(date, off) = f.month
      [] f.type = "week"  ->
            IF hasWeek(f)
            THEN LET r   == getWeekRange(f.year, f.week, off)
                     end == setHoursEndOfDay(r.end, off)
                 IN  date >= r.start /\ date <= end
            ELSE FALSE
      [] OTHER -> FALSE

\* the weeks pushed by the loop of getWeeksInYear from index i on
RECURSIVE weeksFrom(_, _, _, _)
weeksFrom(year, i, weekCount, off) ==
    IF i > weekCount THEN <<>>
    ELSE LET r == getWeekRange(year, i, off)
         IN  IF getFullYear(r.start, off) > year THEN <<>>
             ELSE <<[week |-> i, start |-> r.start, end |-> r.end]>>
                  \o weeksFrom(year, i + 1, weekCount, off)

getWeeksInYear(year, off) ==
    LET isLeap    == getMonth(MakeLocal(year, 1, 29, 0, off), off) = 1
        days      == IF isLeap THEN 366 ELSE 365
        weekCount == CeilDiv7(days)
    IN  weeksFrom(year, 1, weekCount, off)

\* useState<FilterState>({ type: 'week', year: initialYear, week: initialWeek })
initialFilter(cur, off) ==
    [type |-> "week", year |-> getFullYear(cur, off), week |-> getWeekNumber(cur, off)[2]]

----------------------------------------------------------------------------
(* Text *)

\* A debt name is a sequence of tokens: typed text, a blank, or one of the
\* generated pieces "(Tháng m/y)", "(Kỳ n)", "SPayLater - Hóa đơn Tm".
Tok(k, s, a, b) == <<k, s, a, b>>
TokKind(tok) == tok[1]
TokFirst(tok) == tok[3]
Txt(s) == Tok("txt", s, 0, 0)
Blank == Tok("blank", " ", 0, 0)
ThangSuffix(m, y) == Tok("thang", "", m, y)
KySuffix(n) == Tok("ky", "", n, 0)

\* A withdrawal reason is a sequence of characters.
ReasonChars == {" ", "x"}
IsSpace(c) == c = " "

RECURSIVE TrimStart(_)
TrimStart(s) ==
    IF s = <<>> THEN s
    ELSE IF IsSpace(Head(s)) THEN TrimStart(Tail(s)) ELSE s

RECURSIVE TrimEnd(_)
TrimEnd(s) ==
    IF s = <<>> THEN s
    ELSE IF IsSpace(s[Len(s)]) THEN TrimEnd(SubSeq(s, 1, Len(s) - 1)) ELSE s

\* String.prototype.trim
trim(s) == TrimEnd(TrimStart(s))

----------------------------------------------------------------------------
(* Derived state of App *)

\* a debt with amountPaid 1 short of totalAmount counted as completed
isCompleted_offByOne(d) == d.amountPaid + 1 >= d.totalAmount

isCompleted(d) == d.amountPaid >= d.totalAmount

\* debts.reduce((acc, debt) => { push to completedDebts or activeDebts }, {[], []})
RECURSIVE partitionFrom(_, _)
partitionFrom(acc, ds) ==
    IF ds = <<>> THEN acc
    ELSE IF isCompleted(Head(ds))
    THEN partitionFrom([acc EXCEPT !.completedDebts = Append(@, Head(ds))], Tail(ds))
    ELSE partitionFrom([acc EXCEPT !.activeDebts = Append(@, Head(ds))], Tail(ds))

partition(ds) == partitionFrom([activeDebts |-> <<>>, completedDebts |-> <<>>], ds)

activeDebts(ds) == partition(ds).activeDebts
completedDebts(ds) == partition(ds).completedDebts

\* Array.prototype.sort by dueDate, stable
RECURSIVE InsertByDue(_, _)
InsertByDue(d, s) ==
    IF s = <<>> THEN <<d>>
    ELSE IF Head(s).dueDate - d.dueDate > 0 THEN <<d>> \o s
    ELSE <<Head(s)>> \o InsertByDue(d, Tail(s))

RECURSIVE SortByDue(_)
SortByDue(s) ==
    IF s = <<>> THEN <<>>
    ELSE InsertByDue(s[Len(s)], SortByDue(SubSeq(s, 1, Len(s) - 1)))

\* debt.targetMonth !== undefined ? debt.targetMonth : debt.dueDate.getMonth()
filterM(d) ==
    IF "targetMonth" \in DOMAIN d THEN d.targetMonth ELSE getMonth(d.dueDate, tz)
filterY(d) ==
    IF "targetYear" \in DOMAIN d THEN d.targetYear ELSE getFullYear(d.dueDate, tz)

\* the filtered debts in the order of the collection, not sorted
displayDebtsOf_unsorted(ds, fm, fy) ==
    SelectSeq(activeDebts(ds), LAMBDA d : filterM(d) = fm /\ filterY(d) = fy)

displayDebtsOf(ds, fm, fy) ==
    SortByDue(SelectSeq(activeDebts(ds),
                        LAMBDA d : filterM(d) = fm /\ filterY(d) = fy))

displayDebts == displayDebtsOf(debts, debtFilterMonth, debtFilterYear)

\* fractions of the currency unit, <<numerator, denominator>> with denominator > 0
Rat(n) == <<n, 1>>
RatAdd(a, b) == <<a[1] * b[2] + b[1] * a[2], a[2] * b[2]>>
RatDiv(a, k) == <<a[1], a[2] * k>>
RatEq(a, b) == a[1] * b[2] = b[1] * a[2]
RatLeq(a, b) == a[1] * b[2] <= b[1] * a[2]

Abs(x) == IF x < 0 THEN -x ELSE x

\* Math.round(Math.abs(date1.getTime() - date2.getTime()) / oneDay)
daysBetween(date1, date2) ==
    (2 * Abs(date1 - date2) + HoursPerDay) \div (2 * HoursPerDay)

\* Math.floor in place of Math.ceil
weeksLeft_floor(t, dueDate) == daysBetween(t, dueDate) \div 7

\* Math.ceil(daysBetween(new Date(), debt.dueDate) / 7)
weeksLeft(t, dueDate) == (daysBetween(t, dueDate) + 6) \div 7

\* one step of the reduce of weeklyDebtContribution
contributionStep(total, debt, t) ==
    LET remainingAmount == debt.totalAmount - debt.amountPaid
    IN  IF remainingAmount <= 0 THEN total
        ELSE IF weeksLeft(t, debt.dueDate) <= 0 THEN RatAdd(total, Rat(remainingAmount))
        ELSE RatAdd(total, RatDiv(Rat(remainingAmount), weeksLeft(t, debt.dueDate)))

\* activeDebts.reduce((total, debt) => ..., 0), computed at time t
RECURSIVE contributionFrom(_, _, _)
contributionFrom(total, ds, t) ==
    IF ds = <<>> THEN total
    ELSE contributionFrom(contributionStep(total, Head(ds), t), Tail(ds), t)

weeklyDebtContributionOf(ds, t) == contributionFrom(Rat(0), activeDebts(ds), t)

weeklyDebtContribution == weeklyDebtContributionOf(debts, now)

\* Math.ceil(a / b) for b > 0
CeilDiv(a, b) == -((-a) \div b)

\* DebtItem: today > debt.dueDate && remaining > 0
isOverdue(d, t) == t > d.dueDate /\ d.totalAmount - d.amountPaid > 0

\* DebtItem: Math.ceil((debt.dueDate.getTime() - today.getTime()) / one day)
daysLeft(d, t) == CeilDiv(d.dueDate - t, HoursPerDay)

\* DebtItem: the band of statusText and statusColor
statusBand(d, t) ==
    IF daysLeft(d, t) < 0 THEN "overdue"
    ELSE IF daysLeft(d, t) <= 3 THEN "urgent"
    ELSE "normal"

\* DebtItem's useState initial values
InitItem == [inputValue |-> 0, showWithdrawReason |-> FALSE, withdrawReason |-> <<>>]

\* React keeps the state of a DebtItem whose key is still rendered, drops the
\* state of one that is no longer rendered and mounts a fresh one for a new key
Remount(old, ds, fm, fy) ==
    LET shown == displayDebtsOf(ds, fm, fy)
        keys  == {shown[i].id : i \in 1..Len(shown)}
    IN  [k \in keys |-> IF k \in DOMAIN old THEN old[k] ELSE InitItem]

\* the form's values after a save (and at startup)
BlankForm(t, cur, off) ==
    [name |-> <<>>, source |-> "", totalAmount |-> 0,
     dueDate |-> toISODateString(t),
     targetMonth |-> getMonth(cur, off), targetYear |-> getFullYear(cur, off)]

----------------------------------------------------------------------------
(* Initial state *)

\* the overview's useState initial values
InitOverview ==
    /\ filter = initialFilter(currentDate, tz)
    /\ isFilterModalOpen = FALSE
    /\ modalYear = getFullYear(currentDate, tz)
    /\ modalView = "main"
    /\ gasHistory = <<>>
    /\ isGasFilledToday = FALSE
    /\ isMomoConnected = FALSE
    /\ momoTimers = 0
    /\ lastMomoClick = "none"

TimeZones == {7}
\* 2024-01-30 10:00 local time
StartTimes == {MakeLocal(2024, 0, 30, 10, 7)}

InitAt(starts) ==
    /\ tz \in TimeZones
    /\ now \in starts
    /\ currentDate = now
    /\ debts = <<>>
    /\ items = [k \in {} |-> InitItem]
    /\ debtFilterMonth = getMonth(now, tz)
    /\ debtFilterYear = getFullYear(now, tz)
    /\ isDebtModalOpen = FALSE
    /\ editingDebtId = <<>>
    /\ debtType = "standard"
    /\ newDebt = BlankForm(now, now, tz)
    /\ isRecurringDebt = FALSE
    /\ recurringFrequency = "monthly"
    /\ recurringEndDate = <<>>
    /\ shopeeBillMonth = getMonth(now, tz)
    /\ shopeeBillYear = getFullYear(now, tz)
    /\ weeklyIncome = 0
    /\ incomeInput = 0
    /\ actualFoodSpending = 0
    /\ actualMiscSpending = 0
    /\ InitOverview

Init == InitAt(StartTimes)

\* time passes
Tick ==
    /\ now - currentDate < MaxTicks
    /\ now' = now + 1
    /\ UNCHANGED <<tz, currentDate, debts, items, debtFilterMonth, debtFilterYear>>
    /\ UNCHANGED formVars
    /\ UNCHANGED budgetVars
    /\ UNCHANGED overviewVars

----------------------------------------------------------------------------
(* The ledger handlers of App *)

\* Date.now().toString()
NewId(t) == <<t>>

paymentTransaction(amount, t) ==
    [id |-> NewId(t), date |-> t, amount |-> amount, type |-> "payment", reason |-> <<>>]

withdrawalTransaction(amount, reason, t) ==
    [id |-> NewId(t), date |-> t, amount |-> amount, type |-> "withdrawal",
     reason |-> reason]

\* amountPaid: amount, the running total overwritten
paidAfterPayment_overwrite(paid, amount) == amount

paidAfterPayment(paid, amount) == paid + amount

\* amountPaid: d.amountPaid - amount, without the floor at 0
paidAfterWithdrawal_noFloor(paid, amount) == paid - amount

paidAfterWithdrawal(paid, amount) == Max2(0, paid - amount)

\* the debts a handler called with id acts on
isTarget(d, id) == d.id = id

handleAddPayment(ds, id, amount, t) ==
    [i \in 1..Len(ds) |->
        IF isTarget(ds[i], id)
        THEN [ds[i] EXCEPT !.amountPaid = paidAfterPayment(@, amount),
                           !.transactions = Append(@, paymentTransaction(amount, t))]
        ELSE ds[i]]

handleWithdrawPayment(ds, id, amount, reason, t) ==
    [i \in 1..Len(ds) |->
        IF isTarget(ds[i], id)
        THEN [ds[i] EXCEPT !.amountPaid = paidAfterWithdrawal(@, amount),
                           !.transactions =
                               Append(@, withdrawalTransaction(amount, reason, t))]
        ELSE ds[i]]

----------------------------------------------------------------------------
(* DebtItem: the controls of one displayed debt *)

\* the debt objects rendered under React key k
DebtsOfKey(k) == {displayDebts[i] : i \in {j \in 1..Len(displayDebts) : displayDebts[j].id = k}}

RECURSIVE TxCount(_)
TxCount(ds) ==
    IF ds = <<>> THEN 0 ELSE Len(Head(ds).transactions) + TxCount(Tail(ds))

\* the ledgers the handler would append to have room, within the model's bounds
RoomFor(k, extraPaid) ==
    /\ TxCount(debts) + Cardinality({i \in 1..Len(debts) : debts[i].id = k}) <= MaxTx
    /\ \A i \in 1..Len(debts) :
           debts[i].id = k => debts[i].amountPaid + extraPaid <= MaxPaid

\* the form is a full-screen overlay: while it is open the page under it
\* takes no clicks
pageReachable == ~isDebtModalOpen /\ ~isFilterModalOpen

Reasons == UNION {[1..n -> ReasonChars] : n \in 0..MaxReasonLen}

AppUnchanged ==
    /\ UNCHANGED <<now, tz, currentDate, debtFilterMonth, debtFilterYear>>
    /\ UNCHANGED budgetVars
    /\ UNCHANGED overviewVars

\* CurrencyInput.onValueChange -> setInputValue
setInputValue(k, v) ==
    /\ pageReachable
    /\ k \in DOMAIN items
    /\ items' = [items EXCEPT ![k].inputValue = v]
    /\ UNCHANGED debts
    /\ AppUnchanged
    /\ UNCHANGED formVars

canAdd(item) == ~(item.inputValue <= 0)

handleAdd(k) ==
    /\ pageReachable
    /\ k \in DOMAIN items
    /\ canAdd(items[k])
    /\ RoomFor(k, items[k].inputValue)
    /\ debts' = handleAddPayment(debts, k, items[k].inputValue, now)
    /\ items' = Remount([items EXCEPT ![k].inputValue = 0],
                        debts', debtFilterMonth, debtFilterYear)
    /\ AppUnchanged
    /\ UNCHANGED formVars

canInitiateWithdraw(item, debt) ==
    /\ ~(item.inputValue <= 0)
    /\ ~(item.inputValue > debt.amountPaid)

initiateWithdraw(k) ==
    /\ pageReachable
    /\ k \in DOMAIN items
    /\ \E debt \in DebtsOfKey(k) : canInitiateWithdraw(items[k], debt)
    /\ items' = [items EXCEPT ![k].showWithdrawReason = TRUE]
    /\ UNCHANGED debts
    /\ AppUnchanged
    /\ UNCHANGED formVars

\* the reason input is rendered while showWithdrawReason
setWithdrawReason(k, r) ==
    /\ pageReachable
    /\ k \in DOMAIN items
    /\ items[k].showWithdrawReason
    /\ items' = [items EXCEPT ![k].withdrawReason = r]
    /\ UNCHANGED debts
    /\ AppUnchanged
    /\ UNCHANGED formVars

\* the "Hủy" button of the reason panel
cancelWithdraw(k) ==
    /\ pageReachable
    /\ k \in DOMAIN items
    /\ items[k].showWithdrawReason
    /\ items' = [items EXCEPT ![k].showWithdrawReason = FALSE]
    /\ UNCHANGED debts
    /\ AppUnchanged
    /\ UNCHANGED formVars

\* if (!withdrawReason), the reason not trimmed
canConfirmWithdraw_noTrim(item) == ~(item.withdrawReason = <<>>)

canConfirmWithdraw(item) == ~(trim(item.withdrawReason) = <<>>)

confirmWithdraw(k) ==
    /\ pageReachable
    /\ k \in DOMAIN items
    /\ items[k].showWithdrawReason
    /\ canConfirmWithdraw(items[k])
    /\ RoomFor(k, 0)
    /\ debts' = handleWithdrawPayment(debts, k, items[k].inputValue,
                                      items[k].withdrawReason, now)
    /\ items' = Remount([items EXCEPT ![k] = InitItem],
                        debts', debtFilterMonth, debtFilterYear)
    /\ AppUnchanged
    /\ UNCHANGED formVars

----------------------------------------------------------------------------
(* The debt card filter *)

setDebtFilterMonth(m) ==
    /\ pageReachable
    /\ debtFilterMonth' = m
    /\ items' = Remount(items, debts, m, debtFilterYear)
    /\ UNCHANGED <<now, tz, currentDate, debts, debtFilterYear>>
    /\ UNCHANGED formVars
    /\ UNCHANGED budgetVars
    /\ UNCHANGED overviewVars

setDebtFilterYear(y) ==
    /\ pageReachable
    /\ debtFilterYear' = y
    /\ items' = Remount(items, debts, debtFilterMonth, y)
    /\ UNCHANGED <<now, tz, currentDate, debts, debtFilterMonth>>
    /\ UNCHANGED formVars
    /\ UNCHANGED budgetVars
    /\ UNCHANGED overviewVars

----------------------------------------------------------------------------
(* The overview filter and its dialog (FilterModal) *)

MinYear == 2019     \* first year the dialog's year stepper is taken to
MaxYear == 2026     \* last year the dialog's year stepper is taken to
MaxWeek == 60       \* largest week number handed to getWeekRange

FilterUnchanged ==
    /\ UNCHANGED <<now, tz, currentDate, debts, items, debtFilterMonth, debtFilterYear>>
    /\ UNCHANGED formVars
    /\ UNCHANGED budgetVars
    /\ UNCHANGED gasVars
    /\ UNCHANGED momoVars

\* the filter button of the overview: setFilterModalOpen(true)
openFilterModal ==
    /\ pageReachable
    /\ isFilterModalOpen' = TRUE
    /\ UNCHANGED <<filter, modalYear, modalView>>
    /\ FilterUnchanged

\* onClose: the dialog keeps its year and view while hidden
closeFilterModal ==
    /\ isFilterModalOpen
    /\ isFilterModalOpen' = FALSE
    /\ UNCHANGED <<filter, modalYear, modalView>>
    /\ FilterUnchanged

\* the chevrons of the main view: setYear(y => y - 1), setYear(y => y + 1)
setYear(delta) ==
    /\ isFilterModalOpen
    /\ modalView = "main"
    /\ modalYear + delta \in MinYear..MaxYear
    /\ modalYear' = modalYear + delta
    /\ UNCHANGED <<filter, isFilterModalOpen, modalView>>
    /\ FilterUnchanged

\* "Lọc theo Tháng", "Lọc theo Tuần" and "Quay lại"
setView(v) ==
    /\ isFilterModalOpen
    /\ \/ modalView = "main" /\ v \in {"month", "week"}
       \/ modalView # "main" /\ v = "main"
    /\ modalView' = v
    /\ UNCHANGED <<filter, isFilterModalOpen, modalYear>>
    /\ FilterUnchanged

\* handleApply(filter): onApply(filter), then onClose()
handleApply(f) ==
    /\ isFilterModalOpen
    /\ filter' = f
    /\ isFilterModalOpen' = FALSE
    /\ UNCHANGED <<modalYear, modalView>>
    /\ FilterUnchanged

\* "Lọc theo Năm"
applyYear ==
    /\ modalView = "main"
    /\ handleApply([type |-> "year", year |-> modalYear])

\* "Hiển thị tất cả"
applyAll ==
    /\ modalView = "main"
    /\ handleApply([type |-> "all", year |-> getFullYear(now, tz)])

\* a button of the month view
applyMonth(index) ==
    /\ modalView = "month"
    /\ handleApply([type |-> "month", year |-> modalYear, month |-> index])

\* renderWeekView: the week numbers of the buttons, one per week of
\* getWeeksInYear(year)
weeksShown ==
    IF isFilterModalOpen /\ modalView = "week"
    THEN LET weeks == getWeeksInYear(modalYear, tz)
         IN  {weeks[i].week : i \in 1..Len(weeks)}
    ELSE {}

\* a button of the week view
applyWeek(week) ==
    /\ modalView = "week"
    /\ handleApply([type |-> "week", year |-> modalYear, week |-> week])

----------------------------------------------------------------------------
(* The gas log and the wallet link of the overview *)

MaxTimers == 2      \* connection timers pending at once

\* date.getDate(), getMonth() and getFullYear() of the two dates agree
sameCalendarDay(a, b, off) ==
    /\ getDate(a, off) = getDate(b, off)
    /\ getMonth(a, off) = getMonth(b, off)
    /\ getFullYear(a, off) = getFullYear(b, off)

\* gasHistory[gasHistory.length - 1], <<>> for null
lastGasFill(history) ==
    IF Len(history) > 0 THEN <<history[Len(history)]>> ELSE <<>>

\* the body of the useMemo of isGasFilledToday, run at time t
gasFilledOn(history, t, off) ==
    IF lastGasFill(history) = <<>> THEN FALSE
    ELSE sameCalendarDay(lastGasFill(history)[1].date, t, off)

\* prev.filter(log => log.date is not on today's calendar day)
withoutToday(history, t, off) ==
    SelectSeq(history, LAMBDA log : ~sameCalendarDay(log.date, t, off))

\* the history set by handleToggleGas when the memoised flag is `filled`
toggledHistory(history, filled, t, off) ==
    IF filled THEN withoutToday(history, t, off)
    ELSE Append(history, [id |-> <<t>>, date |-> t])

\* useMemo(..., [lastGasFill]): the flag is computed again only when the
\* last log is another object than at the previous render: after an append,
\* or after a filter that dropped the last log
lastGasFillChanged(history, filled, t, off) ==
    \/ ~filled
    \/ /\ history # <<>>
       /\ sameCalendarDay(history[Len(history)].date, t, off)

\* the memoised flag recomputed on every render, whatever its dependencies
memoisedFlag_recomputed(history, filled, t, off) ==
    gasFilledOn(toggledHistory(history, filled, t, off), t, off)

memoisedFlag(history, filled, t, off) ==
    IF lastGasFillChanged(history, filled, t, off)
    THEN gasFilledOn(toggledHistory(history, filled, t, off), t, off)
    ELSE filled

OverviewUnchanged ==
    /\ UNCHANGED <<now, tz, currentDate, debts, items, debtFilterMonth, debtFilterYear>>
    /\ UNCHANGED formVars
    /\ UNCHANGED budgetVars
    /\ UNCHANGED filterVars

handleToggleGas ==
    /\ pageReachable
    /\ gasHistory' = toggledHistory(gasHistory, isGasFilledToday, now, tz)
    /\ isGasFilledToday' = memoisedFlag(gasHistory, isGasFilledToday, now, tz)
    /\ UNCHANGED momoVars
    /\ OverviewUnchanged

\* a click on the link button: a timer is set when the wallet is not linked,
\* the link is dropped when it is
handleMomoConnect ==
    /\ pageReachable
    /\ IF ~isMomoConnected
       THEN /\ momoTimers < MaxTimers
            /\ momoTimers' = momoTimers + 1
            /\ lastMomoClick' = "connect"
            /\ UNCHANGED isMomoConnected
       ELSE /\ isMomoConnected' = FALSE
            /\ lastMomoClick' = "disconnect"
            /\ UNCHANGED momoTimers
    /\ UNCHANGED gasVars
    /\ OverviewUnchanged

\* the callback of setTimeout(..., 800) runs
momoConnectTimeout ==
    /\ momoTimers > 0
    /\ momoTimers' = momoTimers - 1
    /\ isMomoConnected' = TRUE
    /\ UNCHANGED lastMomoClick
    /\ UNCHANGED gasVars
    /\ OverviewUnchanged

----------------------------------------------------------------------------
(* The weekly budget *)

GAS_COST == 70000
WIFI_COST == 30000
FIXED_EXPENSES == GAS_COST + WIFI_COST

RatSub(a, b) == <<a[1] * b[2] - b[1] * a[2], a[2] * b[2]>>
RatLess(a, b) == a[1] * b[2] < b[1] * a[2]

\* Math.floor(a / b) for a >= 0 and b > 0
RatFloorDiv(a, b) == (a[1] * b[2]) \div (a[2] * b[1])

totalActualSpending ==
    RatAdd(Rat(FIXED_EXPENSES + actualFoodSpending + actualMiscSpending),
           weeklyDebtContribution)

\* activeDebts.reduce((sum, d) => sum + (d.totalAmount - d.amountPaid), 0)
RECURSIVE totalDebtRemainingFrom(_, _)
totalDebtRemainingFrom(sum, ds) ==
    IF ds = <<>> THEN sum
    ELSE totalDebtRemainingFrom(sum + (Head(ds).totalAmount - Head(ds).amountPaid), Tail(ds))

totalDebtRemaining == totalDebtRemainingFrom(0, activeDebts(debts))

\* the week's spending taken for one day's
dailySpending_weekly(total) == total

dailySpending(total) == RatDiv(total, 7)

\* the number of days, <<n>>, or <<>> for Infinity
daysOffCanTake ==
    IF totalDebtRemaining <= 0 THEN <<>>
    ELSE IF RatLeq(dailySpending(totalActualSpending), Rat(0)) THEN <<>>
    ELSE LET surplus == IF RatLess(totalActualSpending, Rat(weeklyIncome))
                        THEN RatSub(Rat(weeklyIncome), totalActualSpending)
                        ELSE Rat(0)
         IN  IF RatLeq(surplus, Rat(0)) THEN <<0>>
             ELSE <<RatFloorDiv(surplus, dailySpending(totalActualSpending))>>

BudgetUnchanged ==
    /\ UNCHANGED <<now, tz, currentDate, debts, items, debtFilterMonth, debtFilterYear>>
    /\ UNCHANGED formVars
    /\ UNCHANGED overviewVars

\* CurrencyInput of the income card
setIncomeInput(v) ==
    /\ pageReachable
    /\ incomeInput' = v
    /\ UNCHANGED <<weeklyIncome, actualFoodSpending, actualMiscSpending>>
    /\ BudgetUnchanged

handleUpdateIncome ==
    /\ pageReachable
    /\ weeklyIncome' = incomeInput
    /\ UNCHANGED <<incomeInput, actualFoodSpending, actualMiscSpending>>
    /\ BudgetUnchanged

\* BudgetRow "Ăn uống": onActualChange
setActualFoodSpending(v) ==
    /\ pageReachable
    /\ actualFoodSpending' = v
    /\ UNCHANGED <<weeklyIncome, incomeInput, actualMiscSpending>>
    /\ BudgetUnchanged

\* BudgetRow "Phát sinh": onActualChange
setActualMiscSpending(v) ==
    /\ pageReachable
    /\ actualMiscSpending' = v
    /\ UNCHANGED <<weeklyIncome, incomeInput, actualFoodSpending>>
    /\ BudgetUnchanged

----------------------------------------------------------------------------
(* The add / edit form *)

FormUnchanged == UNCHANGED <<debts, items>> /\ AppUnchanged

\* the "Thêm khoản nợ" button
openAddDebt ==
    /\ pageReachable
    /\ newDebt' = [name |-> <<>>, source |-> "", totalAmount |-> 0,
                   dueDate |-> toISODateString(now),
                   targetMonth |-> debtFilterMonth, targetYear |-> debtFilterYear]
    /\ editingDebtId' = <<>>
    /\ isRecurringDebt' = FALSE
    /\ isDebtModalOpen' = TRUE
    /\ UNCHANGED <<debtType, recurringFrequency, recurringEndDate,
                   shopeeBillMonth, shopeeBillYear>>
    /\ FormUnchanged

IsSuffix(tok) == TokKind(tok) \in {"thang", "ky"}

\* name.replace(/\(Tháng \d+\/\d+\)|\(Kỳ \d+\)/, ''): the first generated suffix goes
RECURSIVE RemoveFirstSuffix(_)
RemoveFirstSuffix(n) ==
    IF n = <<>> THEN n
    ELSE IF IsSuffix(Head(n)) THEN Tail(n)
    ELSE <<Head(n)>> \o RemoveFirstSuffix(Tail(n))

RECURSIVE TrimTokensStart(_)
TrimTokensStart(n) ==
    IF n = <<>> THEN n
    ELSE IF TokKind(Head(n)) = "blank" THEN TrimTokensStart(Tail(n)) ELSE n

RECURSIVE TrimTokensEnd(_)
TrimTokensEnd(n) ==
    IF n = <<>> THEN n
    ELSE IF TokKind(n[Len(n)]) = "blank" THEN TrimTokensEnd(SubSeq(n, 1, Len(n) - 1)) ELSE n

stripSuffix(n) == TrimTokensEnd(TrimTokensStart(RemoveFirstSuffix(n)))

handleEditDebt(debt) ==
    /\ pageReachable
    /\ newDebt' = [name |-> stripSuffix(debt.name), source |-> debt.source,
                   totalAmount |-> debt.totalAmount,
                   dueDate |-> toISODateString(debt.dueDate),
                   targetMonth |-> debt.targetMonth, targetYear |-> debt.targetYear]
    /\ isRecurringDebt' = FALSE
    /\ debtType' = "standard"
    /\ editingDebtId' = debt.id
    /\ isDebtModalOpen' = TRUE
    /\ UNCHANGED <<recurringFrequency, recurringEndDate, shopeeBillMonth, shopeeBillYear>>
    /\ FormUnchanged

\* the "Hủy" and close buttons of the form
closeDebtModal ==
    /\ isDebtModalOpen
    /\ isDebtModalOpen' = FALSE
    /\ UNCHANGED <<editingDebtId, debtType, newDebt, isRecurringDebt, recurringFrequency,
                   recurringEndDate, shopeeBillMonth, shopeeBillYear>>
    /\ FormUnchanged

\* the two tabs, rendered while adding
setDebtType(t) ==
    /\ isDebtModalOpen
    /\ editingDebtId = <<>>
    /\ debtType' = t
    /\ UNCHANGED <<isDebtModalOpen, editingDebtId, newDebt, isRecurringDebt,
                   recurringFrequency, recurringEndDate, shopeeBillMonth, shopeeBillYear>>
    /\ FormUnchanged

\* the onChange handlers of the form's fields, setNewDebt({...newDebt, field: v}):
\* one step stands for the user's run of changes to the fields that are rendered
setNewDebt(f) ==
    /\ isDebtModalOpen
    /\ newDebt' =
         IF debtType = "standard"
         THEN [name |-> f.name, source |-> f.source, totalAmount |-> f.totalAmount,
               dueDate |-> f.dueDate,
               targetMonth |-> IF isRecurringDebt THEN newDebt.targetMonth
                               ELSE f.targetMonth,
               targetYear |-> IF isRecurringDebt THEN newDebt.targetYear
                              ELSE f.targetYear]
         ELSE [newDebt EXCEPT !.totalAmount = f.totalAmount]
    /\ UNCHANGED <<isDebtModalOpen, editingDebtId, debtType, isRecurringDebt,
                   recurringFrequency, recurringEndDate, shopeeBillMonth, shopeeBillYear>>
    /\ FormUnchanged

\* the recurring checkbox, rendered in the standard form while adding
setIsRecurringDebt(b) ==
    /\ isDebtModalOpen
    /\ debtType = "standard"
    /\ editingDebtId = <<>>
    /\ isRecurringDebt' = b
    /\ UNCHANGED <<isDebtModalOpen, editingDebtId, debtType, newDebt,
                   recurringFrequency, recurringEndDate, shopeeBillMonth, shopeeBillYear>>
    /\ FormUnchanged

recurringShown == isDebtModalOpen /\ debtType = "standard" /\ isRecurringDebt

setRecurringFrequency(fr) ==
    /\ recurringShown
    /\ recurringFrequency' = fr
    /\ UNCHANGED <<isDebtModalOpen, editingDebtId, debtType, newDebt, isRecurringDebt,
                   recurringEndDate, shopeeBillMonth, shopeeBillYear>>
    /\ FormUnchanged

setRecurringEndDate(e) ==
    /\ recurringShown
    /\ recurringEndDate' = e
    /\ UNCHANGED <<isDebtModalOpen, editingDebtId, debtType, newDebt, isRecurringDebt,
                   recurringFrequency, shopeeBillMonth, shopeeBillYear>>
    /\ FormUnchanged

shopeeShown == isDebtModalOpen /\ ~(debtType = "standard")

setShopeeBillMonth(m) ==
    /\ shopeeShown
    /\ shopeeBillMonth' = m
    /\ UNCHANGED <<isDebtModalOpen, editingDebtId, debtType, newDebt, isRecurringDebt,
                   recurringFrequency, recurringEndDate, shopeeBillYear>>
    /\ FormUnchanged

setShopeeBillYear(y) ==
    /\ shopeeShown
    /\ shopeeBillYear' = y
    /\ UNCHANGED <<isDebtModalOpen, editingDebtId, debtType, newDebt, isRecurringDebt,
                   recurringFrequency, recurringEndDate, shopeeBillMonth>>
    /\ FormUnchanged

----------------------------------------------------------------------------
(* handleSaveDebt *)

\* the browser's validation of the rendered fields marked required
FormValid ==
    IF debtType = "standard"
    THEN /\ ~(newDebt.name = <<>>)
         /\ ~(newDebt.source = "")
         /\ ~(newDebt.dueDate = <<>>)
         /\ ~(newDebt.totalAmount = 0)
         /\ (isRecurringDebt /\ editingDebtId = <<>>) => ~(recurringEndDate = <<>>)
    ELSE ~(newDebt.totalAmount = 0)

\* `${Date.now()}-${count}`
InstallmentId(t, count) == <<t, count>>

NewDebtRecord(id, name, source, total, due, t, tm, ty) ==
    [id |-> id, name |-> name, source |-> source, totalAmount |-> total,
     amountPaid |-> 0, dueDate |-> due, createdAt |-> t,
     targetMonth |-> tm, targetYear |-> ty, transactions |-> <<>>]

\* the edited debt rebuilt from the form alone, without {...d}
editedDebts_rebuilt(ds, id, f) ==
    [i \in 1..Len(ds) |->
        IF ds[i].id = id
        THEN [ds[i] EXCEPT !.name = f.name, !.source = f.source,
                           !.totalAmount = f.totalAmount,
                           !.dueDate = parseDateString(f.dueDate),
                           !.targetMonth = f.targetMonth,
                           !.targetYear = f.targetYear,
                           !.amountPaid = 0, !.transactions = <<>>]
        ELSE ds[i]]

\* the edit starts the debt's payments afresh
editedDebts_paidReset(ds, id, f) ==
    [i \in 1..Len(ds) |->
        IF ds[i].id = id
        THEN [ds[i] EXCEPT !.name = f.name, !.source = f.source,
                           !.totalAmount = f.totalAmount,
                           !.dueDate = parseDateString(f.dueDate),
                           !.targetMonth = f.targetMonth,
                           !.targetYear = f.targetYear,
                           !.amountPaid = 0]
        ELSE ds[i]]

\* edit branch: prev.map(d => d.id === editingDebtId ? {...d, <form fields>} : d)
editedDebts(ds, id, f) ==
    [i \in 1..Len(ds) |->
        IF ds[i].id = id
        THEN [ds[i] EXCEPT !.name = f.name, !.source = f.source,
                           !.totalAmount = f.totalAmount,
                           !.dueDate = parseDateString(f.dueDate),
                           !.targetMonth = f.targetMonth,
                           !.targetYear = f.targetYear]
        ELSE ds[i]]

\* the year is not carried when the bill month is December
shopeeDueYear_sameYear(billMonth, billYear) == billYear

\* templated branch: due on the 10th of the month after the bill month
shopeeDueMonth(billMonth) == IF billMonth + 1 > 11 THEN 0 ELSE billMonth + 1
shopeeDueYear(billMonth, billYear) == IF billMonth + 1 > 11 THEN billYear + 1 ELSE billYear

shopeeDebts(billMonth, billYear, f, t, off) ==
    LET dueMonth == shopeeDueMonth(billMonth)
        dueYear  == shopeeDueYear(billMonth, billYear)
    IN  << NewDebtRecord(NewId(t), <<Tok("spaylater", "", billMonth + 1, 0)>>,
                         "Shopee SPayLater", f.totalAmount,
                         MakeLocal(dueYear, dueMonth, 10, 0, off), t,
                         dueMonth, dueYear) >>

\* setMonth(getMonth()) and setDate(getDate()): the date is left where it is
advance_stalled(cur, fr, off) ==
    IF fr = "weekly" THEN setDate(cur, getDate(cur, off), off)
    ELSE setMonth(cur, getMonth(cur, off), off)

\* recurring branch: the date the loop moves currentDate to
advance(cur, fr, off) ==
    IF fr = "weekly" THEN setDate(cur, getDate(cur, off) + 7, off)
    ELSE setMonth(cur, getMonth(cur, off) + 1, off)

\* installments counted from 0
debtNameSuffix_fromZero(cur, count, fr, off) ==
    IF fr = "monthly" THEN ThangSuffix(getMonth(cur, off) + 1, getFullYear(cur, off))
    ELSE KySuffix(count - 1)

debtNameSuffix(cur, count, fr, off) ==
    IF fr = "monthly" THEN ThangSuffix(getMonth(cur, off) + 1, getFullYear(cur, off))
    ELSE KySuffix(count)

\* recurring branch: while (currentDate <= endDate) { push; advance; count++ }
RECURSIVE recurringDebts(_, _, _, _, _, _, _)
recurringDebts(cur, end, count, fr, f, t, off) ==
    IF cur <= end
    THEN << NewDebtRecord(InstallmentId(t, count),
                          f.name \o <<Blank, debtNameSuffix(cur, count, fr, off)>>,
                          f.source, f.totalAmount, cur, t,
                          getMonth(cur, off), getFullYear(cur, off)) >>
         \o recurringDebts(advance(cur, fr, off), end, count + 1, fr, f, t, off)
    ELSE <<>>

singleDebts(f, t) ==
    << NewDebtRecord(NewId(t), f.name, f.source, f.totalAmount,
                     parseDateString(f.dueDate), t, f.targetMonth, f.targetYear) >>

debtsToAdd ==
    IF debtType = "shopee"
    THEN shopeeDebts(shopeeBillMonth, shopeeBillYear, newDebt, now, tz)
    ELSE IF isRecurringDebt
    THEN recurringDebts(parseDateString(newDebt.dueDate),
                        parseDateString(recurringEndDate), 1,
                        recurringFrequency, newDebt, now, tz)
    ELSE singleDebts(newDebt, now)

\* an empty expansion replaced by a single debt on the start date
savedDebts_neverEmpty ==
    IF ~(editingDebtId = <<>>)
    THEN editedDebts(debts, editingDebtId, newDebt)
    ELSE IF debtsToAdd = <<>> THEN debts \o singleDebts(newDebt, now)
    ELSE debts \o debtsToAdd

savedDebts ==
    IF ~(editingDebtId = <<>>)
    THEN editedDebts(debts, editingDebtId, newDebt)
    ELSE debts \o debtsToAdd

\* the recurring branch returns early, before the form is reset, on a missing date
recurringDatesMissing ==
    /\ editingDebtId = <<>>
    /\ ~(debtType = "shopee")
    /\ isRecurringDebt
    /\ (newDebt.dueDate = <<>> \/ recurringEndDate = <<>>)

handleSaveDebt ==
    /\ isDebtModalOpen
    /\ FormValid
    /\ ~recurringDatesMissing
    /\ \/ Len(savedDebts) <= MaxDebts
       \/ debts = <<>> /\ Len(savedDebts) <= MaxInstallments
    /\ debts' = savedDebts
    /\ items' = Remount(items, debts', debtFilterMonth, debtFilterYear)
    /\ newDebt' = BlankForm(now, currentDate, tz)
    /\ isRecurringDebt' = FALSE
    /\ recurringEndDate' = <<>>
    /\ isDebtModalOpen' = FALSE
    /\ editingDebtId' = <<>>
    /\ debtType' = "standard"
    /\ UNCHANGED <<recurringFrequency, shopeeBillMonth, shopeeBillYear>>
    /\ AppUnchanged

\* the "Xóa" button of the edit form, confirmed
handleDeleteDebt ==
    /\ isDebtModalOpen
    /\ ~(editingDebtId = <<>>)
    /\ debts' = SelectSeq(debts, LAMBDA d : ~(d.id = editingDebtId))
    /\ items' = Remount(items, debts', debtFilterMonth, debtFilterYear)
    /\ isDebtModalOpen' = FALSE
    /\ editingDebtId' = <<>>
    /\ UNCHANGED <<debtType, newDebt, isRecurringDebt, recurringFrequency,
                   recurringEndDate, shopeeBillMonth, shopeeBillYear>>
    /\ AppUnchanged

----------------------------------------------------------------------------
(* Inputs *)

Day(y, m, d) == DaysFromCivil(y, m, d)

FormA == [name |-> <<Txt("a")>>, source |-> "s", totalAmount |-> 2,
          dueDate |-> <<Day(2024, 1, 31)>>, targetMonth |-> 0, targetYear |-> 2024]
FormB == [name |-> <<Txt("b")>>, source |-> "t", totalAmount |-> 1,
          dueDate |-> <<Day(2024, 2, 15)>>, targetMonth |-> 1, targetYear |-> 2024]

\* a debt entered after its due date
FormLate == [name |-> <<Txt("c")>>, source |-> "s", totalAmount |-> 2,
             dueDate |-> <<Day(2024, 1, 15)>>, targetMonth |-> 0, targetYear |-> 2024]

\* the recurring form: start dates, with the end dates below
RecurringForm(start) ==
    [name |-> <<Txt("a")>>, source |-> "s", totalAmount |-> 2,
     dueDate |-> <<start>>, targetMonth |-> 0, targetYear |-> 2024]
RecurringStarts == {Day(2024, 1, 1), Day(2024, 1, 15), Day(2024, 1, 31)}
RecurringEnds == {Day(2024, 1, 10), Day(2024, 1, 22), Day(2024, 4, 15)}

IncomeInputs == {0, 250000}
SpendingInputs == {0, 50000}

\* what the user types into the form
FormInputs == {FormA, FormB}
EndDateInputs == { <<Day(2024, 2, 7)>> }
FilterMonthInputs == {0, 1}
FilterYearInputs == {2024}
BillMonthInputs == {11}
BillYearInputs == {2023}

----------------------------------------------------------------------------
(* Specifications *)

\* The DebtItem controls of the displayed debts
ItemNext ==
    \/ \E k \in DOMAIN items, v \in 0..MaxInput : setInputValue(k, v)
    \/ \E k \in DOMAIN items : handleAdd(k)
    \/ \E k \in DOMAIN items : initiateWithdraw(k)
    \/ \E k \in DOMAIN items, r \in Reasons : setWithdrawReason(k, r)
    \/ \E k \in DOMAIN items : cancelWithdraw(k)
    \/ \E k \in DOMAIN items : confirmWithdraw(k)

\* Controls used in every session
CommonNext ==
    \/ Tick
    \/ \E m \in FilterMonthInputs : setDebtFilterMonth(m)
    \/ \E y \in FilterYearInputs : setDebtFilterYear(y)
    \/ openAddDebt
    \/ \E i \in 1..Len(displayDebts) : handleEditDebt(displayDebts[i])
    \/ closeDebtModal
    \/ handleSaveDebt
    \/ handleDeleteDebt

\* The tabs, the recurring controls and the templated form
CreationNext ==
    \/ \E t \in {"standard", "shopee"} : setDebtType(t)
    \/ \E b \in BOOLEAN : setIsRecurringDebt(b)
    \/ \E fr \in {"weekly", "monthly"} : setRecurringFrequency(fr)
    \/ \E e \in EndDateInputs : setRecurringEndDate(e)
    \/ \E m \in BillMonthInputs : setShopeeBillMonth(m)
    \/ \E y \in BillYearInputs : setShopeeBillYear(y)

\* A session in which debts are added and edited through the plain form and
\* paid and withdrawn from through their DebtItem controls
Next ==
    \/ CommonNext
    \/ ItemNext
    \/ \E f \in FormInputs : setNewDebt(f)

Spec == Init /\ [][Next]_vars

\* A session in which debts are created through all three paths (single,
\* templated, recurring), edited and deleted, and none is paid
NextForm ==
    \/ CommonNext
    \/ CreationNext
    \/ \E f \in {FormA} : setNewDebt(f)

SpecForm == Init /\ [][NextForm]_vars

\* A session in which debts due before, around and after today are added and
\* paid, and the weekly budget is read
BudgetForms == {FormA, FormB, FormLate}

NextBudget ==
    \/ Tick
    \/ \E m \in FilterMonthInputs : setDebtFilterMonth(m)
    \/ openAddDebt
    \/ \E f \in BudgetForms : setNewDebt(f)
    \/ handleSaveDebt
    \/ \E k \in DOMAIN items, v \in 0..MaxInput : setInputValue(k, v)
    \/ \E k \in DOMAIN items : handleAdd(k)
    \/ \E v \in IncomeInputs : setIncomeInput(v)
    \/ handleUpdateIncome
    \/ \E v \in SpendingInputs : setActualFoodSpending(v)
    \/ \E v \in SpendingInputs : setActualMiscSpending(v)

SpecBudget == Init /\ [][NextBudget]_vars

\* a debt due on the day it is entered, the due date the form proposes
FormToday == [name |-> <<Txt("d")>>, source |-> "s", totalAmount |-> 2,
              dueDate |-> <<Day(2024, 1, 30)>>, targetMonth |-> 0, targetYear |-> 2024]

\* A session in which debts due today, tomorrow and two weeks ago are added
\* and paid, and their status is read
StatusForms == {FormToday, FormA, FormLate}

NextStatus ==
    \/ Tick
    \/ openAddDebt
    \/ \E f \in StatusForms : setNewDebt(f)
    \/ handleSaveDebt
    \/ \E k \in DOMAIN items, v \in 0..MaxInput : setInputValue(k, v)
    \/ \E k \in DOMAIN items : handleAdd(k)

SpecStatus == Init /\ [][NextStatus]_vars

\* The recurring form, open and filled in, is saved, reopened and refilled
InitRecurring ==
    /\ tz \in TimeZones
    /\ now \in StartTimes
    /\ currentDate = now
    /\ debts = <<>>
    /\ items = [k \in {} |-> InitItem]
    /\ debtFilterMonth = getMonth(now, tz)
    /\ debtFilterYear = getFullYear(now, tz)
    /\ isDebtModalOpen = TRUE
    /\ editingDebtId = <<>>
    /\ debtType = "standard"
    /\ \E start \in RecurringStarts :
           newDebt = [RecurringForm(start) EXCEPT !.targetMonth = debtFilterMonth,
                                                  !.targetYear = debtFilterYear]
    /\ isRecurringDebt = TRUE
    /\ recurringFrequency \in {"weekly", "monthly"}
    /\ \E end \in RecurringEnds : recurringEndDate = <<end>>
    /\ shopeeBillMonth = getMonth(now, tz)
    /\ shopeeBillYear = getFullYear(now, tz)
    /\ weeklyIncome = 0
    /\ incomeInput = 0
    /\ actualFoodSpending = 0
    /\ actualMiscSpending = 0
    /\ InitOverview

NextRecurring ==
    \/ Tick
    \/ openAddDebt
    \/ closeDebtModal
    \/ \E b \in BOOLEAN : setIsRecurringDebt(b)
    \/ \E start \in RecurringStarts : setNewDebt(RecurringForm(start))
    \/ \E fr \in {"weekly", "monthly"} : setRecurringFrequency(fr)
    \/ \E end \in RecurringEnds : setRecurringEndDate(<<end>>)
    \/ handleSaveDebt

SpecRecurring == InitRecurring /\ [][NextRecurring]_vars

\* a session of the overview filter and its dialog, started on
\* Sunday 2024-12-29 at 23:00 local time, an hour before the week ends
FilterStartTimes == {MakeLocal(2024, 11, 29, 23, 7)}

InitFilter == InitAt(FilterStartTimes)

NextFilter ==
    \/ Tick
    \/ openFilterModal
    \/ closeFilterModal
    \/ \E delta \in {-1, 1} : setYear(delta)
    \/ \E v \in {"main", "month", "week"} : setView(v)
    \/ applyYear
    \/ applyAll
    \/ \E index \in 0..11 : applyMonth(index)
    \/ \E week \in weeksShown : applyWeek(week)

SpecFilter == InitFilter /\ [][NextFilter]_vars

\* a session of browsing the dialog's years and views: Sunday 2024-01-07,
\* Sunday 2023-01-01 and Sunday 2024-12-29 at 23:00, Tuesday 2021-06-15 at 10:00
DialogStartTimes ==
    {MakeLocal(2024, 0, 7, 23, 7), MakeLocal(2023, 0, 1, 23, 7),
     MakeLocal(2021, 5, 15, 10, 7), MakeLocal(2024, 11, 29, 23, 7)}

InitDialog == InitAt(DialogStartTimes)

NextDialog ==
    \/ Tick
    \/ openFilterModal
    \/ closeFilterModal
    \/ \E delta \in {-1, 1} : setYear(delta)
    \/ \E v \in {"main", "month", "week"} : setView(v)
    \/ applyYear
    \/ applyAll

SpecDialog == InitDialog /\ [][NextDialog]_vars

\* a session on the overview, started at 23:00 local time on one of the days
\* from December 25 to January 7 around each turn of the year, or at 10:00
\* on a June 15
OverviewStartTimes ==
    {MakeLocal(y, 11, d, 23, 7) : y \in MinYear..MaxYear - 1, d \in 25..38}
        \cup {MakeLocal(y, 5, 15, 10, 7) : y \in MinYear..MaxYear}

InitSession == InitAt(OverviewStartTimes)

NextOverview ==
    \/ Tick
    \/ handleToggleGas
    \/ handleMomoConnect
    \/ momoConnectTimeout

SpecOverview == InitSession /\ [][NextOverview]_vars

----------------------------------------------------------------------------
(* Properties *)

Last(q) == q[Len(q)]

IsPrefix(p, q) == Len(p) <= Len(q) /\ SubSeq(q, 1, Len(p)) = p

\* p can be obtained from q by dropping elements
RECURSIVE IsSubSeq(_, _)
IsSubSeq(p, q) ==
    IF p = <<>> THEN TRUE
    ELSE IF q = <<>> THEN FALSE
    ELSE IF Head(p) = Head(q) THEN IsSubSeq(Tail(p), Tail(q))
    ELSE IsSubSeq(p, Tail(q))

AllTransactions ==
    UNION { {debts[i].transactions[j] : j \in 1..Len(debts[i].transactions)} :
            i \in 1..Len(debts) }

\* payments minus withdrawals of a ledger
RECURSIVE LedgerSum(_)
LedgerSum(txs) ==
    IF txs = <<>> THEN 0
    ELSE LedgerSum(SubSeq(txs, 1, Len(txs) - 1))
         + (IF Last(txs).type = "payment" THEN Last(txs).amount ELSE 0 - Last(txs).amount)

\* the step appends a withdrawal to the ledger of the debt at position i
WithdrawalAppended(i) ==
    /\ Len(debts') = Len(debts)
    /\ Len(debts'[i].transactions) = Len(debts[i].transactions) + 1
    /\ Last(debts'[i].transactions).type = "withdrawal"

\* C1: a withdrawal is applied to a debt only when its amount is at most the
\* debt's amountPaid at the moment it is applied; a larger one leaves the debt
\* unchanged.
C1_WithdrawalWithinPaid ==
    [][\A i \in 1..Len(debts) :
          WithdrawalAppended(i) =>
              Last(debts'[i].transactions).amount <= debts[i].amountPaid]_vars

\* C2: every transaction of every ledger has an amount greater than 0.
C2_AmountsPositive == \A tx \in AllTransactions : tx.amount > 0

\* C3: every debt has amountPaid >= 0.
C3_PaidNonNegative == \A i \in 1..Len(debts) : debts[i].amountPaid >= 0

\* C3 witness: a withdrawal larger than the balance has been applied and the
\* floor at 0 has acted.
C3_Witness ==
    \E i \in 1..Len(debts) :
        /\ debts[i].transactions # <<>>
        /\ Last(debts[i].transactions).type = "withdrawal"
        /\ LedgerSum(debts[i].transactions) < 0
        /\ debts[i].amountPaid = 0

\* C4: each debt's amountPaid equals the sum of its payment transactions minus
\* the sum of its withdrawal transactions.
C4_LedgerAccountsForPaid ==
    \A i \in 1..Len(debts) : debts[i].amountPaid = LedgerSum(debts[i].transactions)

\* C5: for any debt and any amount a > 0, a payment of a followed by a
\* withdrawal of a returns amountPaid to its value before the payment and
\* lengthens the ledger by exactly 2, one payment and then one withdrawal.
C5_PayThenWithdraw ==
    \A i \in 1..Len(debts), a \in 1..MaxInput, r \in Reasons :
        LET id     == debts[i].id
            old    == debts[i].transactions
            paid   == handleAddPayment(debts, id, a, now)
            back   == handleWithdrawPayment(paid, id, a, r, now)
            new    == back[i].transactions
        IN  /\ back[i].amountPaid = debts[i].amountPaid
            /\ Len(new) = Len(old) + 2
            /\ IsPrefix(old, new)
            /\ new[Len(old) + 1].type = "payment" /\ new[Len(old) + 1].amount = a
            /\ new[Len(old) + 2].type = "withdrawal" /\ new[Len(old) + 2].amount = a

\* C5 witness: through its controls a debt has been paid an amount and then
\* had the same amount withdrawn, and its amountPaid is back at 0.
C5_Witness ==
    \E i \in 1..Len(debts) :
        LET txs == debts[i].transactions
        IN  /\ Len(txs) = 2
            /\ txs[1].type = "payment" /\ txs[2].type = "withdrawal"
            /\ txs[1].amount = txs[2].amount
            /\ debts[i].amountPaid = 0

\* C6: the ledger is append-only: a step that keeps the debts in the collection
\* leaves each debt's transaction list a prefix of its new list, and a step
\* that removes debts leaves the others as they were.
C6_LedgerAppendOnly ==
    [][IF Len(debts') >= Len(debts)
       THEN \A i \in 1..Len(debts) :
                /\ debts'[i].id = debts[i].id
                /\ IsPrefix(debts[i].transactions, debts'[i].transactions)
       ELSE IsSubSeq(debts', debts)]_vars

\* C6 witness: a ledger has been appended to twice, and the first payment is
\* still in front of the second.
C6_Witness ==
    \E i \in 1..Len(debts) :
        LET txs == debts[i].transactions
        IN  /\ Len(txs) = 2
            /\ txs[1].type = "payment" /\ txs[2].type = "payment"

\* C7: no two debts of the collection share an id.
C7_UniqueIds ==
    \A i, j \in 1..Len(debts) : debts[i].id = debts[j].id => i = j

\* C8: a payment, withdrawal or edit changes only the debt it is targeted at:
\* at most one debt of the collection differs after the step, and the order
\* of the collection is unchanged.
C8_OnlyTargetChanges ==
    [][Len(debts') = Len(debts) =>
          /\ Cardinality({i \in 1..Len(debts) : debts'[i] # debts[i]}) <= 1
          /\ \A i \in 1..Len(debts) : debts'[i].id = debts[i].id]_vars

\* C9: every withdrawal transaction carries a reason that is not empty and not
\* only whitespace.
C9_WithdrawalsHaveReason ==
    \A tx \in AllTransactions : tx.type = "withdrawal" => trim(tx.reason) # <<>>

\* C9 witness: a withdrawal has been confirmed and is in a ledger.
C9_Witness == \E tx \in AllTransactions : tx.type = "withdrawal"

\* C10: the partition is exhaustive and disjoint, completedDebts holds exactly
\* the debts with amountPaid >= totalAmount, and both lists keep the order of
\* the collection.
C10_Partition ==
    LET act  == activeDebts(debts)
        comp == completedDebts(debts)
        A    == {i \in 1..Len(debts) : debts[i].amountPaid < debts[i].totalAmount}
        C    == {i \in 1..Len(debts) : debts[i].amountPaid >= debts[i].totalAmount}
    IN  /\ Len(act) = Cardinality(A)
        /\ Len(comp) = Cardinality(C)
        /\ \A k \in 1..Len(act) :
               \E i \in A : act[k] = debts[i] /\ Cardinality({j \in A : j < i}) = k - 1
        /\ \A k \in 1..Len(comp) :
               \E i \in C : comp[k] = debts[i] /\ Cardinality({j \in C : j < i}) = k - 1

\* C10 witness: the collection holds a completed debt followed by an active one.
C10_Witness ==
    /\ Len(debts) = 2
    /\ debts[1].amountPaid >= debts[1].totalAmount
    /\ debts[2].amountPaid < debts[2].totalAmount
    /\ debts[2].amountPaid > 0

\* the contribution of one debt taken alone
ContributionOfDebt(d) == weeklyDebtContributionOf(<<d>>, now)

Remaining(d) == d.totalAmount - d.amountPaid

\* C11: every active debt whose due date is now or in the past contributes its
\* full remaining balance to weeklyDebtContribution, not a fraction of it.
C11_OverdueContributesInFull ==
    \A i \in 1..Len(debts) :
        (~isCompleted(debts[i]) /\ debts[i].dueDate <= now) =>
            RatEq(ContributionOfDebt(debts[i]), Rat(Remaining(debts[i])))

\* the contributions of the active debts among the first n, added up
RECURSIVE SumOfContributions(_)
SumOfContributions(n) ==
    IF n = 0 THEN Rat(0)
    ELSE RatAdd(SumOfContributions(n - 1),
                IF isCompleted(debts[n]) THEN Rat(0) ELSE ContributionOfDebt(debts[n]))

\* C12: an active debt due in the future with weeksLeft =
\* ceil(round((due - now) / 1 day) / 7) > 0 contributes exactly
\* remaining / weeksLeft, and weeklyDebtContribution is the sum of the
\* contributions of all active debts.
C12_FutureContributesFraction ==
    LET active == {i \in 1..Len(debts) : ~isCompleted(debts[i])}
        Days(i) == (2 * (debts[i].dueDate - now) + HoursPerDay) \div (2 * HoursPerDay)
        Weeks(i) == IF Days(i) % 7 = 0 THEN Days(i) \div 7 ELSE Days(i) \div 7 + 1
        Contribution(i) == ContributionOfDebt(debts[i])
    IN  /\ \A i \in active :
              (debts[i].dueDate > now /\ Weeks(i) > 0) =>
                  /\ Remaining(debts[i]) > 0
                  /\ Contribution(i)[1] * Weeks(i) = Remaining(debts[i]) * Contribution(i)[2]
        /\ RatEq(weeklyDebtContribution, SumOfContributions(Len(debts)))

\* C12 witness: two active debts are held, one partly paid and the other due
\* in three weeks' time.
C12_Witness ==
    /\ Len(debts) = 2
    /\ \A i \in 1..2 : ~isCompleted(debts[i])
    /\ \E i, j \in 1..2 :
           /\ debts[i].amountPaid > 0
           /\ debts[j].dueDate > now
           /\ weeksLeft(now, debts[j].dueDate) = 3

\* the state in which a save takes the recurring branch and runs the loop
RecurringReady ==
    /\ isDebtModalOpen
    /\ editingDebtId = <<>>
    /\ debtType = "standard"
    /\ isRecurringDebt
    /\ FormValid
    /\ ~(recurringEndDate = <<>>)

\* a step in which the form is saved: it closes and its end date is cleared
SaveStep == isDebtModalOpen /\ ~isDebtModalOpen' /\ recurringEndDate' = <<>>

StartOfForm == newDebt.dueDate[1] * HoursPerDay
EndOfForm == recurringEndDate[1] * HoursPerDay

\* the debts a step has appended to the collection
Appended == SubSeq(debts', Len(debts) + 1, Len(debts'))

\* C13: a recurring save whose start date is later than its end date runs to
\* its end (the form is reset and closed) and leaves the debt collection
\* unchanged.
C13_StartAfterEndAddsNothing ==
    [][(RecurringReady /\ StartOfForm > EndOfForm) =>
          /\ SaveStep => debts' = debts
          /\ ~recurringDatesMissing]_vars

\* C13 witness: a recurring form with its start after its end has been saved:
\* the end date is cleared, which only a save does, and no debt is held.
C13_Witness ==
    /\ ~isDebtModalOpen
    /\ recurringEndDate = <<>>
    /\ debts = <<>>

\* the civil date of the form's start date, and the same day of the month
\* k - 1 months later
StartCivil == CivilFromDays(newDebt.dueDate[1])
SameDayOfMonth(k) ==
    LET m == StartCivil.m + k - 1
    IN  DaysFromCivil(StartCivil.y + (m \div 12), (m % 12) + 1, StartCivil.d) * HoursPerDay

\* C14: a monthly recurring save appends one installment for each consecutive
\* calendar month from the start's month on, each due on the start's day of
\* the month, as long as that day is not after the end date.
C14_MonthlySameDay ==
    [][(RecurringReady /\ recurringFrequency = "monthly" /\ SaveStep) =>
          /\ IsPrefix(debts, debts')
          /\ \A k \in 1..Len(Appended) :
                 LET due == CivilFromDays(Appended[k].dueDate \div HoursPerDay)
                     m   == StartCivil.m + k - 1
                 IN  /\ due.d = StartCivil.d
                     /\ due.m = m % 12
                     /\ due.y = StartCivil.y + (m \div 12)
                     /\ Appended[k].dueDate <= EndOfForm
          /\ SameDayOfMonth(Len(Appended) + 1) > EndOfForm]_vars

\* C15: a weekly recurring save with start <= end appends exactly
\* floor((end - start) / 7 days) + 1 installments; the k-th is due 7 * (k - 1)
\* days after the start and its name ends with the suffix "(Kỳ k)".
C15_WeeklyEverySevenDays ==
    [][(RecurringReady /\ recurringFrequency = "weekly" /\ SaveStep
          /\ StartOfForm <= EndOfForm) =>
          /\ IsPrefix(debts, debts')
          /\ Len(Appended) = (EndOfForm - StartOfForm) \div (7 * HoursPerDay) + 1
          /\ \A k \in 1..Len(Appended) :
                 /\ Appended[k].dueDate = StartOfForm + 7 * (k - 1) * HoursPerDay
                 /\ Last(Appended[k].name) = <<"ky", "", k, 0>>]_vars

\* C15 witness: four weekly installments have been saved, the last one named
\* "(Kỳ 4)" and due three weeks after the first.
C15_Witness ==
    /\ Len(debts) = 4
    /\ TokKind(Last(debts[4].name)) = "ky" /\ TokFirst(Last(debts[4].name)) = 4
    /\ debts[4].dueDate = debts[1].dueDate + 21 * HoursPerDay

\* C16: the recurring loop terminates: from every date between the start and
\* the end the advance moves the current date strictly forward, so the loop
\* emits at most one installment per day of the range.
C16_LoopTerminates ==
    RecurringReady =>
        /\ \A n \in 0..((EndOfForm - StartOfForm) \div HoursPerDay) :
               LET cur == StartOfForm + n * HoursPerDay
               IN  advance(cur, recurringFrequency, tz) > cur
        /\ Len(debtsToAdd) <= Max2(0, (EndOfForm - StartOfForm) \div HoursPerDay + 1)

\* C16 witness: the monthly loop has run four times and stopped.
C16_Witness ==
    /\ Len(debts) = 4
    /\ TokKind(Last(debts[4].name)) = "thang"

\* a step in which the templated form is saved: it closes and the form goes
\* back to the standard tab
ShopeeSaveStep ==
    /\ isDebtModalOpen /\ debtType = "shopee" /\ editingDebtId = <<>>
    /\ ~isDebtModalOpen' /\ debtType' = "standard"

\* C17: saving the templated form for bill month m and year y appends exactly
\* one debt, due on day 10 of the month after m (January of y + 1 when m is
\* December), with amountPaid 0, an empty ledger and targetMonth / targetYear
\* equal to the month and year of the due date.
C17_ShopeeDueNextMonth ==
    [][ShopeeSaveStep =>
          /\ Len(debts') = Len(debts) + 1
          /\ IsPrefix(debts, debts')
          /\ LET d   == Last(debts')
                 due == CivilFromDays((d.dueDate + tz) \div HoursPerDay)
             IN  /\ due.d = 10
                 /\ (d.dueDate + tz) % HoursPerDay = 0
                 /\ due.m = (IF shopeeBillMonth = 11 THEN 0 ELSE shopeeBillMonth + 1)
                 /\ due.y = (IF shopeeBillMonth = 11 THEN shopeeBillYear + 1
                             ELSE shopeeBillYear)
                 /\ d.amountPaid = 0
                 /\ d.transactions = <<>>
                 /\ d.targetMonth = due.m
                 /\ d.targetYear = due.y]_vars

\* C17 witness: the templated form has been saved for the bill of December
\* 2023 and the debt is in the bucket of January 2024.
C17_Witness ==
    \E i \in 1..Len(debts) :
        /\ debts[i].source = "Shopee SPayLater"
        /\ TokFirst(debts[i].name[1]) = 12
        /\ debts[i].targetMonth = 0
        /\ debts[i].targetYear = 2024

\* C18: daysOffCanTake is unbounded whenever the total remaining balance of
\* the active debts is <= 0; otherwise, the daily spend totalActual / 7 being
\* positive, it is 0 when weeklyIncome - totalActual <= 0 and
\* floor((weeklyIncome - totalActual) / (totalActual / 7)) when it is positive.
C18_DaysOff ==
    LET active == {i \in 1..Len(debts) : debts[i].amountPaid < debts[i].totalAmount}
        T      == totalActualSpending
        \* 7 * (weeklyIncome - totalActual), in units of 1 / T[2]
        room   == 7 * (weeklyIncome * T[2] - T[1])
    IN  IF \A i \in active : Remaining(debts[i]) <= 0
        THEN daysOffCanTake = <<>>
        ELSE T[1] > 0 =>
               IF room <= 0 THEN daysOffCanTake = <<0>>
               ELSE /\ Len(daysOffCanTake) = 1
                    /\ daysOffCanTake[1] * T[1] <= room
                    /\ room < (daysOffCanTake[1] + 1) * T[1]

\* C18 witness: with an active debt held and an income above the week's
\* spending, some days off, but not as many as seven, can be taken.
C18_Witness ==
    /\ totalDebtRemaining > 0
    /\ actualFoodSpending > 0
    /\ Len(daysOffCanTake) = 1
    /\ daysOffCanTake[1] > 0
    /\ daysOffCanTake[1] < 7

\* a step in which the form is saved while a debt is being edited: editing
\* ends and the form is reset (a delete leaves the form's fields as they are)
EditSaveStep ==
    /\ isDebtModalOpen /\ ~(editingDebtId = <<>>)
    /\ editingDebtId' = <<>>
    /\ ~(newDebt' = newDebt)

\* C19: saving an edit leaves the number of debts unchanged and leaves every
\* debt's id, createdAt, amountPaid and transaction list as they were.
C19_EditKeepsIdentityAndLedger ==
    [][EditSaveStep =>
          /\ Len(debts') = Len(debts)
          /\ \A i \in 1..Len(debts) :
                 /\ debts'[i].id = debts[i].id
                 /\ debts'[i].createdAt = debts[i].createdAt
                 /\ debts'[i].amountPaid = debts[i].amountPaid
                 /\ debts'[i].transactions = debts[i].transactions]_vars

\* C19 witness: the only debt held bears the name of FormB and has two ledger
\* entries; a debt created from FormB is completed and hidden by its first
\* payment, so this one was given the name by an edit after its two entries.
C19_Witness ==
    /\ Len(debts) = 1
    /\ debts[1].name = FormB.name
    /\ debts[1].totalAmount = FormB.totalAmount
    /\ Len(debts[1].transactions) = 2

\* the bucket of a debt: its target month and year when it has them, the
\* month and year of its due date otherwise
BucketOf(d) ==
    IF "targetMonth" \in DOMAIN d /\ "targetYear" \in DOMAIN d
    THEN <<d.targetMonth, d.targetYear>>
    ELSE LET due == CivilFromDays((d.dueDate + tz) \div HoursPerDay)
         IN  <<due.m, due.y>>

----------------------------------------------------------------------------
(* Properties of the week arithmetic *)

\* C21: for the year shown in the dialog and every week number w >= 1,
\* getWeekRange(year, w) starts on a Monday at local midnight and ends on the
\* Sunday exactly 6 days later, so the range covers 7 consecutive days.
C21_WeekRangeMondayToSunday ==
    \A w \in 1..MaxWeek :
        LET r == getWeekRange(modalYear, w, tz)
        IN  /\ getDay(r.start, tz) = 1
            /\ LocalHour(r.start, tz) = 0
            /\ getDay(r.end, tz) = 0
            /\ r.end - r.start = 6 * HoursPerDay
            /\ {LocalDay(r.start, tz) + k : k \in 0..6}
                   = LocalDay(r.start, tz)..LocalDay(r.end, tz)

\* the week view lists the ranges of a year whose January 1 is a Sunday, so
\* that every anchor day is a Sunday and is rolled back by six days
C21_Witness ==
    /\ isFilterModalOpen
    /\ modalView = "week"
    /\ modalYear # getFullYear(currentDate, tz)
    /\ getDay(MakeLocal(modalYear, 0, 1, 0, tz), tz) = 0
    /\ getDay(getWeekRange(modalYear, 1, tz).start, tz) = 1


\* C22: for the current date and the week filter in force, isDateInFilter is
\* true iff the date lies between the start of getWeekRange(year, week) and
\* the end of its last day (strictly before the midnight that follows); for
\* a week filter whose week number is missing or 0 it is false, and is
\* evaluated without reading the missing field.
C22_WeekFilterMembership ==
    /\ (filter.type = "week" /\ hasWeek(filter)) =>
          LET r == getWeekRange(filter.year, filter.week, tz)
          IN  isDateInFilter(now, filter, tz)
                <=> (r.start <= now /\ now < r.end + HoursPerDay)
    /\ \A y \in {modalYear, filter.year} :
          /\ ~isDateInFilter(now, [type |-> "week", year |-> y], tz)
          /\ ~isDateInFilter(now, [type |-> "week", year |-> y, week |-> 0], tz)

\* a week picked in the dialog is in force and the current date is in the
\* last hour of its last day
C22_Witness ==
    /\ filter.type = "week"
    /\ ~isFilterModalOpen
    /\ modalView = "week"
    /\ filter.year = modalYear
    /\ isDateInFilter(now, filter, tz)
    /\ LocalHour(now, tz) = HoursPerDay - 1
    /\ LocalDay(now, tz) = LocalDay(getWeekRange(filter.year, filter.week, tz).end, tz)


\* C23: every week returned by getWeeksInYear(year), for the year shown in
\* the dialog, has its start date within calendar year `year`.
C23_WeeksStartInYear ==
    LET weeks == getWeeksInYear(modalYear, tz)
    IN  \A i \in 1..Len(weeks) : getFullYear(weeks[i].start, tz) = modalYear


\* the day number of the Monday of the local week of t
MondayOf(t) == LocalDay(t, tz) - ((getDay(t, tz) + 6) % 7)

\* the day numbers of the Thursdays of year y up to day number last
ThursdaysUpTo(y, last) ==
    {k \in DaysFromCivil(y, 1, 1)..last : (k + 4) % 7 = 4}

\* C24: for the current date d, getWeekNumber(d) returns (y, w) where y is
\* the calendar year of the Thursday of d's Monday-to-Sunday week and w is the
\* 1-based index of that Thursday among the Thursdays of year y; week 1 is
\* the week holding the year's first Thursday, and all seven days of d's week
\* get the same (y, w).
C24_WeekNumberOfThursday ==
    LET thursday == MondayOf(now) + 3
        y == CivilFromDays(thursday).y
        w == Cardinality(ThursdaysUpTo(y, thursday))
    IN  /\ getWeekNumber(now, tz) = <<y, w>>
        /\ w >= 1
        /\ (w = 1) <=> (thursday - DaysFromCivil(y, 1, 1) < 7)
        /\ \A k \in 0..6 :
               getWeekNumber((MondayOf(now) + k) * HoursPerDay - tz + LocalHour(now, tz), tz)
                   = getWeekNumber(now, tz)

\* the current date is a Sunday, Monday, Tuesday or Wednesday whose week
\* belongs to another year than the date itself
C24_Witness ==
    /\ now # currentDate
    /\ getDay(now, tz) \in {0, 1, 2, 3}
    /\ getWeekNumber(now, tz)[1] # getFullYear(now, tz)
    /\ getWeekNumber(now, tz)[2] \in {1, 52, 53}


\* filteredGasHistory: gasHistory.filter(g => isDateInFilter(g.date, filter))
filteredGasHistory ==
    SelectSeq(gasHistory, LAMBDA g : isDateInFilter(g.date, filter, tz))

\* C25: the initial overview filter {week, current calendar year, week number
\* of the current date} contains the date of startup, and a gas log recorded
\* on the day of startup is shown under it.
C25_InitialFilterHoldsToday ==
    filter = initialFilter(currentDate, tz) =>
        /\ isDateInFilter(currentDate, filter, tz)
        /\ \A i \in 1..Len(gasHistory) :
               sameCalendarDay(gasHistory[i].date, currentDate, tz) =>
                   \E j \in 1..Len(filteredGasHistory) :
                       filteredGasHistory[j] = gasHistory[i]


\* the history holds a log dated on the current calendar day
HasEntryToday ==
    \E i \in 1..Len(gasHistory) : sameCalendarDay(gasHistory[i].date, now, tz)

\* C26: in every reachable state, toggling gas when the history has no entry
\* dated on the current calendar day appends one entry dated now, and
\* toggling when it has one removes it; the history never holds two entries
\* of the same calendar day.
C26_ToggleGasFollowsToday ==
    /\ ~HasEntryToday =>
          toggledHistory(gasHistory, isGasFilledToday, now, tz)
              = Append(gasHistory, [id |-> <<now>>, date |-> now])
    /\ HasEntryToday =>
          toggledHistory(gasHistory, isGasFilledToday, now, tz)
              = withoutToday(gasHistory, now, tz)
    /\ \A i, j \in 1..Len(gasHistory) :
          sameCalendarDay(gasHistory[i].date, gasHistory[j].date, tz) => i = j


\* C27: after the user clicks to disconnect the wallet, isMomoConnected stays
\* false until the user clicks connect again, whatever the order of the
\* clicks and of the connection timers.
C27_DisconnectedUntilConnectClick ==
    lastMomoClick = "disconnect" => ~isMomoConnected


----------------------------------------------------------------------------
(* Properties of completed debts, the edit form and the status of a debt *)

\* C28: once a debt is completed (amountPaid >= totalAmount) no step of the
\* session modifies, reactivates or removes it: it is in the collection after
\* the step with all its fields and its ledger as before.
C28_CompletedDebtsAreFrozen ==
    [][\A i \in 1..Len(debts) :
          isCompleted(debts[i]) =>
              \E j \in 1..Len(debts') : debts'[j] = debts[i]]_vars


\* the fields handleEditDebt puts into the form for a debt
UntouchedFormOf(d) ==
    [name |-> stripSuffix(d.name), source |-> d.source,
     totalAmount |-> d.totalAmount, dueDate |-> toISODateString(d.dueDate),
     targetMonth |-> d.targetMonth, targetYear |-> d.targetYear]

SameEditableFields(d, e) ==
    /\ d.name = e.name
    /\ d.source = e.source
    /\ d.totalAmount = e.totalAmount
    /\ d.dueDate = e.dueDate
    /\ d.targetMonth = e.targetMonth
    /\ d.targetYear = e.targetYear

\* C29: saving the edit form of a debt with no field changed since it was
\* opened leaves the debt's name, source, totalAmount, dueDate, targetMonth
\* and targetYear as they were, whichever path created the debt.
C29_UnchangedEditIsIdentity ==
    [][EditSaveStep =>
          \A i \in 1..Len(debts) :
              (debts[i].id = editingDebtId /\ newDebt = UntouchedFormOf(debts[i])) =>
                  /\ i <= Len(debts')
                  /\ SameEditableFields(debts'[i], debts[i])]_vars


\* C30: for every displayed debt with a positive remaining balance, at the
\* current time, the overdue flag (now > dueDate and remaining > 0) is set
\* exactly when the status text is in the overdue band (daysLeft < 0).
C30_OverdueFlagMatchesBand ==
    \A i \in 1..Len(displayDebts) :
        displayDebts[i].totalAmount - displayDebts[i].amountPaid > 0 =>
            (isOverdue(displayDebts[i], now)
                <=> statusBand(displayDebts[i], now) = "overdue")

====
